---- MODULE Spec2Model ----
(***************************************************************************)
(* Sahadev: a Vedic horoscope tool.  The model follows one form submission *)
(* of streamlit_app.py through ChartCalculator (astrology.py), the yoga    *)
(* and dasa heuristics (yogas.py) and HoroscopeEngine (engine.py).         *)
(*                                                                         *)
(* Numbers.  Longitudes are Python floats.  The model keeps them as        *)
(* integers counted in 1/LonRes of a degree, so every operation on a       *)
(* longitude and on the exactly representable constants 30.0 and 360.0 is  *)
(* exact, as it is in the code.  The two divisors 30.0/9.0 and 360.0/27.0  *)
(* are NOT exactly representable: the doubles the code divides by are      *)
(* 3.3333333333333335 and 13.333333333333334, both slightly ABOVE 10/3 and *)
(* 40/3.  Floor division and remainder by them are modelled as division by *)
(* (n/d + delta) for an infinitesimal delta > 0.  Rounding errors of the   *)
(* doubles are carried only where they change a result: in a floor, in a   *)
(* comparison with 0, and in the microsecond a timedelta is rounded to.    *)
(***************************************************************************)
EXTENDS Integers, Sequences, FiniteSets, TLC

\* Grid points per degree of longitude: a longitude is a whole number of
\* 1/LonRes degrees, and Grid holds those of [0, 360).
LonRes == 4
\* Spacing, in degrees, of the longitudes a full submission is run on.
BaseStep == 180

Deg(x) == x * LonRes
Circle == Deg(360)
Sign == Deg(30)
Grid == 0 .. (Circle - 1)

\* bodies of planet_positions, in dict insertion order
Bodies == <<"Sun", "Moon", "Mercury", "Venus", "Mars", "Jupiter", "Saturn", "Rahu">>
Planets == {Bodies[i] : i \in 1..Len(Bodies)}

VIM_ORDER == <<"Ketu", "Venus", "Sun", "Moon", "Mars", "Rahu", "Jupiter", "Saturn", "Mercury">>
VIM_YEARS == [l \in {VIM_ORDER[i] : i \in 1..Len(VIM_ORDER)} |->
                CASE l = "Ketu" -> 7 [] l = "Venus" -> 20 [] l = "Sun" -> 6
                  [] l = "Moon" -> 10 [] l = "Mars" -> 7 [] l = "Rahu" -> 18
                  [] l = "Jupiter" -> 16 [] l = "Saturn" -> 19 [] l = "Mercury" -> 17]

----------------------------------------------------------------------------
\* Float helpers.

\* x // (n/d) as Python computes it when the double for n/d lies slightly
\* above n/d: an x that is an exact positive multiple of n/d falls one short.
FloorDivAbove(x, n, d) ==
    LET q0 == (x * d) \div n
    IN  IF q0 > 0 /\ (x * d) % n = 0 THEN q0 - 1 ELSE q0

\* (x % (n/d)) / (n/d) for the same divisor, as the number num/den - eps*e
\* (e infinitesimal): where the floor division fell short the remainder is a
\* whole divisor less a rounding error, so the quotient is just below 1.
FracAbove(x, n, d) ==
    LET q == FloorDivAbove(x, n, d)
        short == (x * d) % n = 0 /\ x > 0
    IN  [num |-> (x * d) - (q * n), den |-> n, eps |-> IF short THEN 1 ELSE 0]

----------------------------------------------------------------------------
\* astrology.py

\* An exception that leaves a function, in place of its value.
Raised(what) == [raised |-> what]
IsRaised(value) == "raised" \in DOMAIN value

\* What swe.calc_ut does for a body, as far as planet_positions looks at it:
\* it hands back a number as res[0] ("flat"), a number as res[0][0]
\* ("nested", what pyswisseph returns) or neither, or it raises; the call
\* stands outside the try.  The number is a grid value, or one of the doubles
\* that lon % 360.0 does not bring into [0, 360): a negative number so close
\* to 0 that 360.0 plus it rounds to 360.0 ("just below zero", e.g. -1e-20),
\* and nan or an infinity ("nan").
Shapes == {"flat", "nested", "neither", "raises"}
OffGrid == {"just below zero", "nan"}
CalcResult(shape, value) ==
    [shape |-> shape, value |-> IF shape \in {"neither", "raises"} THEN 0 ELSE value,
     off |-> "no"]
CalcResultOff(shape, off) == [shape |-> shape, value |-> 0, off |-> off]
CalcRaises(results) == \E p \in Planets : results[p].shape = "raises"

\* the try/except chain: float(res[0]), else float(res[0][0]), else 0.0
LonOfResult(res) ==
    IF res.shape \in {"flat", "nested"} THEN [value |-> res.value, off |-> res.off]
    ELSE [value |-> 0, off |-> "no"]

\* nan as a longitude: no number, and nothing is computed from it
NaN == 0 - 1
\* lon % 360.0 in doubles: exact on the grid; 360.0 itself for a number just
\* below zero; nan for nan and for an infinity
Mod360(float) ==
    CASE float.off = "nan" -> NaN
      [] float.off = "just below zero" -> Circle
      [] OTHER -> float.value % Circle

\* planet_positions: one longitude per body, reduced modulo 360.0
PlanetPositionsUnreduced(results) ==
    IF CalcRaises(results) THEN Raised("swe.calc_ut")
    ELSE [p \in Planets |->
            [lon |-> IF LonOfResult(results[p]).off = "nan" THEN NaN
                     ELSE LonOfResult(results[p]).value]]
planet_positions(results) ==
    IF CalcRaises(results) THEN Raised("swe.calc_ut")
    ELSE [p \in Planets |-> [lon |-> Mod360(LonOfResult(results[p]))]]

\* get_rasi_chart: int(lon // 30) raises ValueError for nan
RasiOfZeroBased(lon) == lon \div Sign
RasiOf(lon) == (lon \div Sign) + 1
DegInSignOf(lon) == lon % Sign
get_rasi_chart(raw, asc) ==
    LET planets == planet_positions(raw)
    IN  IF IsRaised(planets) THEN planets
        ELSE IF \E p \in Planets : planets[p].lon = NaN THEN Raised("ValueError")
        ELSE [planets |-> [p \in Planets |->
                             [lon |-> planets[p].lon,
                              rasi |-> RasiOf(planets[p].lon),
                              degree_in_sign |-> DegInSignOf(planets[p].lon)]],
              asc |-> asc]

\* get_navamsa_chart: part = 30.0 / 9.0
NavIndexOf(lon) == FloorDivAbove(lon % Sign, Sign, 9)
NavSignOf(lon) == (((lon \div Sign) * 9 + NavIndexOf(lon)) % 12) + 1
get_navamsa_chart(raw, asc) ==
    LET r == get_rasi_chart(raw, asc)
    IN  IF IsRaised(r) THEN r
        ELSE [navamsa |-> [p \in Planets |->
                             [lon |-> r.planets[p].lon,
                              nav_sign |-> NavSignOf(r.planets[p].lon)]]]

----------------------------------------------------------------------------
\* yogas.py

\* _deg_to_nak_index: span = 360.0 / 27.0
deg_to_nak_index(lon) ==
    [idx |-> FloorDivAbove(lon, Circle, 27) % 27,
     fraction |-> FracAbove(lon, Circle, 27)]


\* compute_vimshottari_dasa_heuristic.  Years are kept as num/den - eps*e
\* like the fraction (eps = -1: just above num/den), with num/den the exact
\* value and late = 1 where the double lies so far above it that
\* timedelta(days=years * 365.25) comes out one microsecond longer.
\* An instant is a number of ticks of 1/Circle of a year of 365.25 days
\* (a whole number of microseconds each) and of single microseconds;
\* isoformat is one-to-one on instants.
\* round(remaining_years, 3) is kept in thousandths; on an exact decimal tie
\* the rounding error of the double decides, so either neighbour (tie) can
\* come out.
Years(n) == [num |-> n * Circle, den |-> Circle, eps |-> 0, late |-> 0]
Instant(ticks, us) == [ticks |-> ticks, us |-> us]
Timedelta(years) == Instant(years.num, years.late)
Plus(instant, delta) == Instant(instant.ticks + delta.ticks, instant.us + delta.us)
RoundMilli(years, tie) ==
    LET m == years.num * 1000
        fl == m \div years.den
        twice == 2 * (m % years.den)
    IN  IF twice > years.den \/ (twice = years.den /\ tie = 1) THEN fl + 1 ELSE fl

\* full_years * (1.0 - fraction) in doubles: the error of lon % span grows
\* with the nakshatra index and is multiplied by full_years.  At these Moon
\* longitudes, counted in quarters of a degree, it reaches half a
\* microsecond: all of the nakshatras from 306.75 on (lords Rahu, Jupiter,
\* Saturn, Mercury), nearly all of the Venus nakshatra from 253.5 on, and two
\* longitudes of the Saturn nakshatra before it.
LateQuarters ==
    {867, 872} \cup ((1014..1066) \ {1017, 1022, 1027, 1032}) \cup (1227..1440)
RoundsLate(lon) == (lon * 4) % LonRes = 0 /\ ((lon * 4) \div LonRes) \in LateQuarters

RECURSIVE NextDasas(_, _, _)
NextDasas(idx, running_start, i) ==
    IF i > 6 THEN <<>>
    ELSE LET lord == VIM_ORDER[idx + 1]
             dur == VIM_YEARS[lord]
             running_end == Plus(running_start, Timedelta(Years(dur)))
         IN  <<[name |-> lord, start |-> running_start, end |-> running_end,
                duration_years |-> Years(dur)]>>
             \o NextDasas((idx + 1) % Len(VIM_ORDER), running_end, i + 1)

IndexOf(seq, x) == CHOOSE i \in 1..Len(seq) : seq[i] = x /\ \A j \in 1..(i - 1) : seq[j] # x

compute_vimshottari_dasa_heuristic(moon_lon, birth_dt, tie) ==
    LET nak == deg_to_nak_index(moon_lon)
        start_lord == VIM_ORDER[(nak.idx % Len(VIM_ORDER)) + 1]
        frac == nak.fraction
        remaining_fraction == [num |-> frac.den - frac.num, den |-> frac.den,
                               eps |-> 0 - frac.eps]
        full_years == VIM_YEARS[start_lord]
        remaining_years == [num |-> full_years * remaining_fraction.num,
                            den |-> remaining_fraction.den,
                            eps |-> remaining_fraction.eps,
                            late |-> IF RoundsLate(moon_lon) THEN 1 ELSE 0]
        start_index == IndexOf(VIM_ORDER, start_lord) - 1
        cur_start == birth_dt
        cur_end == Plus(cur_start, Timedelta(remaining_years))
    IN  [current |-> [lord |-> start_lord, text |-> "Mahadasha (approx)"],
         remaining_years |-> RoundMilli(remaining_years, tie),
         sequence |-> <<[name |-> start_lord, start |-> cur_start, end |-> cur_end,
                         duration_years |-> remaining_years]>>
                      \o NextDasas((start_index + 1) % Len(VIM_ORDER), cur_end, 1)]

\* _angle_distance
Abs(x) == IF x < 0 THEN -x ELSE x
AngleDistanceNoWrap(a, b) == Abs(a - b)
angle_distance(a, b) == Abs(((a - b + Deg(180)) % Circle) - Deg(180))

\* _angle_distance on doubles next to the grid.  A double is whole/LonRes
\* degrees plus low units of 2^-46 degree, low small.  Doubles lie 8 units
\* apart in [512, 1024), 4 in [256, 512), 2 in [128, 256) and 1 in
\* [64, 128); below 64 every whole number of units is a double.  Each of +, - rounds the exact result
\* to the nearest double, a tie to the one with an even last bit.
Double(whole, low) == [whole |-> whole, low |-> low]
Negative(x) == x.whole < 0 \/ (x.whole = 0 /\ x.low < 0)
AbsDouble(x) == IF Negative(x) THEN Double(0 - x.whole, 0 - x.low) ELSE x
AtLeast(x, degrees) == x.whole > Deg(degrees) \/ (x.whole = Deg(degrees) /\ x.low >= 0)
Spacing(x) ==
    IF AtLeast(AbsDouble(x), 512) THEN 8
    ELSE IF AtLeast(AbsDouble(x), 256) THEN 4
    ELSE IF AtLeast(AbsDouble(x), 128) THEN 2
    ELSE 1
RoundTo(low, spacing) ==
    LET down == low \div spacing
        rest == low % spacing
    IN  IF 2 * rest < spacing \/ (2 * rest = spacing /\ down % 2 = 0)
        THEN down * spacing
        ELSE (down + 1) * spacing
Rounded(x) == Double(x.whole, RoundTo(x.low, Spacing(x)))
Add(x, y) == Rounded(Double(x.whole + y.whole, x.low + y.low))
Sub(x, y) == Rounded(Double(x.whole - y.whole, x.low - y.low))
\* x % 360 for x in (-360, 720): the remainder of fmod is exact, and 360 is
\* added to a negative one
Mod360Double(x) ==
    IF Negative(x) THEN Add(x, Double(Circle, 0))
    ELSE IF AtLeast(x, 360) THEN Double(x.whole - Circle, x.low)
    ELSE x
AngleDistanceDouble(a, b) ==
    AbsDouble(Sub(Mod360Double(Add(Sub(a, b), Double(Deg(180), 0))), Double(Deg(180), 0)))

\* detect_common_yogas.  An entry of the list is the text of the yoga, with
\* the planet and the degrees that the f-strings interpolate kept apart.
Yoga(name) == [name |-> name, planet |-> "", deg |-> 0]
RajaLords == <<"Sun", "Moon", "Mercury", "Venus", "Jupiter", "Mars", "Saturn">>

GajakesariConjunctionOnly(p) ==
    IF "Jupiter" \in DOMAIN p /\ "Moon" \in DOMAIN p
    THEN LET d == angle_distance(p["Jupiter"].lon, p["Moon"].lon)
         IN  IF d <= Deg(6) THEN <<Yoga("Gajakesari Yoga (heuristic)")>> ELSE <<>>
    ELSE <<>>
Gajakesari(p) ==
    IF "Jupiter" \in DOMAIN p /\ "Moon" \in DOMAIN p
    THEN LET d == angle_distance(p["Jupiter"].lon, p["Moon"].lon)
         IN  IF d <= Deg(6) \/ Abs(d - Deg(120)) <= Deg(6) \/ Abs(d - Deg(240)) <= Deg(6)
             THEN <<Yoga("Gajakesari Yoga (heuristic)")>> ELSE <<>>
    ELSE <<>>

ChandraMangalElif(p) ==
    IF "Jupiter" \in DOMAIN p /\ "Moon" \in DOMAIN p /\ Gajakesari(p) # <<>>
    THEN <<>>
    ELSE IF "Moon" \in DOMAIN p /\ "Mars" \in DOMAIN p
    THEN LET d == angle_distance(p["Moon"].lon, p["Mars"].lon)
         IN  IF d <= Deg(3) THEN <<Yoga("Chandra-Mangal Yoga (heuristic)")>> ELSE <<>>
    ELSE <<>>

ChandraMangal(p) ==
    IF "Moon" \in DOMAIN p /\ "Mars" \in DOMAIN p
    THEN LET d == angle_distance(p["Moon"].lon, p["Mars"].lon)
         IN  IF d <= Deg(3) THEN <<Yoga("Chandra-Mangal Yoga (heuristic)")>> ELSE <<>>
    ELSE <<>>

Mahalakshmi(p) ==
    IF "Venus" \in DOMAIN p
    THEN IF p["Venus"].rasi \in {1, 5, 9}
         THEN <<Yoga("Mahalakshmi Yoga (heuristic)")>> ELSE <<>>
    ELSE <<>>

RECURSIVE RajaYogas(_, _)
RajaYogas(p, i) ==
    IF i > Len(RajaLords) THEN <<>>
    ELSE LET lord == RajaLords[i]
         IN  (IF lord \in DOMAIN p /\ p[lord].rasi \in {1, 4, 7, 10}
              THEN <<[name |-> "Possible Raja-yoga influence (in kendra)",
                      planet |-> lord, deg |-> 0]>>
              ELSE <<>>)
             \o RajaYogas(p, i + 1)

\* deg = info.get("degree_in_sign") or (info.get("lon", 0) % 30); deg < 2.0
NeechaDeg(info) == IF info.degree_in_sign # 0 THEN info.degree_in_sign ELSE info.lon % Sign
RECURSIVE Neechas(_, _)
Neechas(p, i) ==
    IF i > Len(Bodies) THEN <<>>
    ELSE LET name == Bodies[i]
         IN  (IF name \in DOMAIN p /\ NeechaDeg(p[name]) < Deg(2)
              THEN <<[name |-> "Possible Neecha (weak) placement",
                      planet |-> name, deg |-> NeechaDeg(p[name])]>>
              ELSE <<>>)
             \o Neechas(p, i + 1)

RECURSIVE Dedupe(_, _)
Dedupe(out, seen) ==
    IF out = <<>> THEN <<>>
    ELSE IF Head(out) \in seen THEN Dedupe(Tail(out), seen)
         ELSE <<Head(out)>> \o Dedupe(Tail(out), seen \cup {Head(out)})

detect_common_yogas(rasi_chart) ==
    LET p == rasi_chart.planets
    IN  Dedupe(Gajakesari(p) \o ChandraMangal(p) \o Mahalakshmi(p)
               \o RajaYogas(p, 1) \o Neechas(p, 1), {})

\* analyze_chart_for_yogas_and_dasas
AnalyzeChartWithMoonOnly(rasi_chart, nav_chart, birth_dt, tie) ==
    IF "Moon" \in DOMAIN rasi_chart.planets
    THEN [yogas |-> detect_common_yogas(rasi_chart),
          dasas |-> compute_vimshottari_dasa_heuristic(rasi_chart.planets["Moon"].lon, birth_dt, tie)]
    ELSE [yogas |-> <<>>,
          dasas |-> [current |-> [lord |-> "", text |-> "Unknown (no Moon position)"],
                     sequence |-> <<>>]]
analyze_chart_for_yogas_and_dasas(rasi_chart, nav_chart, birth_dt, tie) ==
    [yogas |-> detect_common_yogas(rasi_chart),
     dasas |-> IF "Moon" \in DOMAIN rasi_chart.planets
               THEN compute_vimshottari_dasa_heuristic(rasi_chart.planets["Moon"].lon, birth_dt, tie)
               ELSE [current |-> [lord |-> "", text |-> "Unknown (no Moon position)"],
                     sequence |-> <<>>]]

----------------------------------------------------------------------------
\* engine.py

\* Python's None is the empty tuple, a present value v is <<v>>.
None == <<>>
Some(v) == <<v>>

\* format_structured: "deg" is info.get("degree_in_sign") or info.get("deg"),
\* and a rasi chart entry has no "deg" key.
format_structured(rasi_chart, nav_chart, meta_data) ==
    [meta |-> meta_data,
     rasi |-> [p \in DOMAIN rasi_chart.planets |->
                 [lon |-> rasi_chart.planets[p].lon,
                  rasi |-> rasi_chart.planets[p].rasi,
                  deg |-> IF rasi_chart.planets[p].degree_in_sign # 0
                          THEN Some(rasi_chart.planets[p].degree_in_sign)
                          ELSE None]],
     asc |-> rasi_chart.asc,
     navamsa |-> nav_chart.navamsa]

\* A JSON value that a reply can hold, as far as the code looks at it: its
\* type (an object, a list, or a string, number or boolean), whether it is
\* truthy and, for an object, its keys and for each what the page can do with
\* the value under it.  Blank is "", 0, false, null, [] or {}.  A truthy value
\* the model wrote is opaque (FromModel) unless it is one the page cannot
\* write to the end: bullets or yogas of which "- " + item raises at the
\* first item, or that cannot be iterated (Mistyped), or at a later item
\* (MistypedLater).  Local is a truthy value the engine itself made.
ReplyKeys == {"headline", "bullets", "narrative", "yogas", "dasas"}
FromModel == [kind |-> "written by the model"]
Mistyped == [kind |-> "written by the model, items not strings"]
MistypedLater == [kind |-> "written by the model, a later item not a string"]
Blank == [kind |-> "blank"]
Local(content) == [kind |-> "local", value |-> content]
KindsUnder(key) ==
    IF key \in {"bullets", "yogas"} THEN {FromModel, Blank, Mistyped, MistypedLater}
    ELSE {FromModel, Blank}
JsonObjectOf(items) == [type |-> "dict", items |-> items]
JsonObject(keys) == JsonObjectOf([k \in keys |-> FromModel])
JsonList(indices) == [type |-> "list", items |-> [i \in indices |-> FromModel]]
JsonScalar(value) == [type |-> "scalar", items |-> value]
\* every object over any of the reply keys, an object with a foreign key,
\* a list and an empty one, a truthy and a falsy scalar
JsonObjects ==
    UNION {{JsonObjectOf(items) :
               items \in {f \in [keys -> {FromModel, Blank, Mistyped, MistypedLater}] :
                             \A k \in keys : f[k] \in KindsUnder(k)}} :
           keys \in SUBSET ReplyKeys}
JsonValues ==
    JsonObjects
    \cup {JsonObject({"foo"}),
          JsonList({"0"}), JsonList({}),
          JsonScalar(FromModel), JsonScalar(Blank)}
\* bool(v): a non-empty object or list, a non-zero number, true, a non-empty string
Truthy(v) == IF v.type = "scalar" THEN v.items.kind # "blank" ELSE DOMAIN v.items # {}

\* What _call_llm can return: None, "" or a text.  Of a text the code looks
\* at whether it matches one of the ask_patterns (_model_requests_json) and at
\* the JSON value _extract_json_from_text finds in it, if any.
NoText == [none |-> TRUE, empty |-> TRUE, asks |-> FALSE, json |-> None]
EmptyText == [none |-> FALSE, empty |-> TRUE, asks |-> FALSE, json |-> None]
\* A text that is [] or a falsy number, boolean or string has no words to
\* ask with.
Texts == {t \in [none : {FALSE}, empty : {FALSE}, asks : BOOLEAN,
                 json : {None} \cup {Some(v) : v \in JsonValues}] :
             ~(t.asks /\ t.json \in {Some(JsonList({})), Some(JsonScalar(Blank))})}

\* the literal "LLM produced no usable output."
NoUsableOutput == [none |-> FALSE, empty |-> FALSE, asks |-> FALSE, json |-> None]

extract_json_from_text(text) == IF text.empty THEN None ELSE text.json
model_requests_json(text) == IF text.empty THEN FALSE ELSE text.asks

\* _call_llm: the texts the configured transports can hand back.  The new
\* client returns a non-empty content or None; a raised exception falls
\* through to the old ChatCompletion, which can also return "".
call_llm(openai_client, old_style) ==
    (IF openai_client THEN {NoText} \cup Texts ELSE {})
    \cup (IF old_style THEN {NoText, EmptyText} \cup Texts ELSE {})
    \cup {NoText}

\* _build_prompt: the template has {{ structured_data }}, {input} or neither
\* (then the JSON is appended); in each case the prompt carries the JSON.
Templates == {"{{ structured_data }}", "{input}", "plain"}
build_prompt(structured_payload, template) ==
    [prompt |-> IF template = "plain" THEN "template + JSON_INPUT" ELSE "template",
     json |-> structured_payload]
injected_prompt(structured_payload) ==
    [prompt |-> "Proceed using the following structured JSON", json |-> structured_payload]

\* "{deg:.1f}": tenths of a degree, rounded half to even
Format1f(deg) ==
    LET fl == (deg * 10) \div LonRes
        twice == 2 * ((deg * 10) % LonRes)
    IN  IF twice > LonRes \/ (twice = LonRes /\ fl % 2 = 1) THEN fl + 1 ELSE fl

\* _fallback_text: bullets for the first six entries of the payload's rasi
\* part, in insertion order
RECURSIVE FallbackBullets(_, _, _)
FallbackBullets(rasi_part, i, n) ==
    IF i > Len(Bodies) \/ n >= 6 THEN <<>>
    ELSE IF Bodies[i] \notin DOMAIN rasi_part THEN FallbackBullets(rasi_part, i + 1, n)
    ELSE LET info == rasi_part[Bodies[i]]
             deg == IF info.deg = None THEN info.lon % Sign ELSE info.deg[1]
         IN  <<[planet |-> Bodies[i], sign |-> info.rasi, deg |-> Format1f(deg)]>>
             \o FallbackBullets(rasi_part, i + 1, n + 1)

FallbackTextNoDasas(structured_payload) ==
    LET headline == "Basic horoscope overview (local fallback)"
        bullets == FallbackBullets(structured_payload.rasi, 1, 0)
    IN  [type |-> "dict",
         items |-> [headline |-> Local(headline),
                    bullets |-> Local(bullets),
                    narrative |-> Local([headline |-> headline, placements |-> bullets,
                                         tail |-> "This is an automated fallback reading."])]]

fallback_text(structured_payload) ==
    LET headline == "Basic horoscope overview (local fallback)"
        bullets == FallbackBullets(structured_payload.rasi, 1, 0)
    IN  [type |-> "dict",
         items |-> [headline |-> Local(headline),
                    bullets |-> Local(bullets),
                    narrative |-> Local([headline |-> headline, placements |-> bullets,
                                         tail |-> "This is an automated fallback reading."]),
                    yogas |-> Blank,
                    dasas |-> Blank]]

\* generate_analysis after the first reply: return the parsed JSON, retry, or
\* fall back
RetryWheneverUnparsed(text) ==
    model_requests_json(text) \/ extract_json_from_text(text) = None
RetryNeeded(text) ==
    /\ ~text.empty
    /\ (model_requests_json(text) \/ extract_json_from_text(text) = None)
AfterFirstReply(text) ==
    LET parsed == extract_json_from_text(text)
    IN  IF parsed # None /\ Truthy(parsed[1]) THEN "return parsed"
        ELSE IF RetryNeeded(text) THEN "retry"
        ELSE "fallback"

\* generate_analysis after the retry: the parsed JSON, else
\* {"narrative": text2 or text or "LLM produced no usable output."}
AfterRetry(text, text2) ==
    LET parsed2 == extract_json_from_text(text2)
    IN  IF parsed2 # None /\ Truthy(parsed2[1]) THEN parsed2[1]
        ELSE [type |-> "dict",
              items |-> [narrative |-> Local(IF ~text2.empty THEN text2
                                             ELSE IF ~text.empty THEN text
                                             ELSE NoUsableOutput)]]

----------------------------------------------------------------------------
\* utils.py

\* geocode_place: a "lat,lon" place is parsed directly; otherwise the
\* geocoder finds the place, finds nothing or raises
Places == {"lat,lon", "name"}
GeocoderOutcomes == {"found", "not found", "raises"}
geocode_place(place, geocoder) ==
    IF place = "lat,lon" \/ geocoder = "found"
    THEN Some([lat |-> "latitude", lon |-> "longitude"])
    ELSE None

\* ensure_tzaware: pytz.timezone(tz_name) raises for a text that names no
\* timezone; otherwise the naive datetime is localized
TimezoneTexts == {"Asia/Kolkata", "Mars/Olympus"}
KnownTimezones == {"Asia/Kolkata"}
ensure_tzaware(dt_naive, tz_name) ==
    IF tz_name \in KnownTimezones
    THEN [instant |-> dt_naive, tz |-> tz_name]
    ELSE Raised("UnknownTimeZoneError")

----------------------------------------------------------------------------
\* streamlit_app.py: one form submission

VARIABLES
    pc,             \* where the submit handler stands
    raw,            \* what swe.calc_ut gives for each body at the birth instant
    asc_in,         \* ascendant swe.houses gives
    openai_client,  \* engine._openai_client is set
    old_style,      \* openai.ChatCompletion exists
    loc,            \* geocode_place(place)
    dt,             \* ensure_tzaware(dt_naive, tz)
    rasi,           \* calc.get_rasi_chart()
    nav,            \* calc.get_navamsa_chart()
    svg,            \* the chart drawn
    analysis_yogas, \* analyze_chart_for_yogas_and_dasas(rasi, nav, birth_dt=dt)
    structured,     \* the payload for the LLM
    sent,           \* the prompts handed to _call_llm, in order
    text,           \* first reply inside generate_analysis
    text2,          \* reply to the retry
    result,         \* what generate_analysis returned
    shown,          \* what the page shows of the result
    angles,         \* two angles handed to _angle_distance
    distance        \* _angle_distance of the two, in both orders

vars == <<pc, raw, asc_in, openai_client, old_style, loc, dt, rasi, nav, svg,
          analysis_yogas, structured, sent, text, text2, result, shown,
          angles, distance>>

Unset == <<>>
\* datetime.combine(dob, tob): the instant the dasa timeline is counted from
Birth == Instant(0, 0)

\* The charts a run starts from: the Moon at a longitude base, the other
\* bodies and the ascendant at whole degrees from it, in one of a few layouts.
Layouts == <<
    [Sun |-> 100, Moon |-> 0, Mercury |-> 111, Venus |-> 61, Mars |-> 3,
     Jupiter |-> 6, Saturn |-> 200, Rahu |-> 300, Asc |-> 77],
    [Sun |-> 15, Moon |-> 0, Mercury |-> 32, Venus |-> 47, Mars |-> 356,
     Jupiter |-> 127, Saturn |-> 181, Rahu |-> 270, Asc |-> 0],
    [Sun |-> 180, Moon |-> 0, Mercury |-> 201, Venus |-> 222, Mars |-> 90,
     Jupiter |-> 246, Saturn |-> 45, Rahu |-> 1, Asc |-> 359] >>

ChartAt(base, layout) ==
    [p \in Planets |-> CalcResult("nested", (base + Deg(Layouts[layout][p])) % Circle)]

InitRest ==
    /\ pc = "submit"
    /\ loc = Unset /\ dt = Unset /\ rasi = Unset /\ nav = Unset /\ svg = Unset
    /\ analysis_yogas = Unset /\ structured = Unset
    /\ sent = <<>> /\ text = Unset /\ text2 = Unset /\ result = Unset
    /\ shown = {}
    /\ angles = Unset /\ distance = Unset

\* every grid longitude, no LLM configured
InitChart ==
    /\ \E base \in Grid, layout \in 1..Len(Layouts) :
          /\ raw = ChartAt(base, layout)
          /\ asc_in = (base + Deg(Layouts[layout].Asc)) % Circle
    /\ openai_client = FALSE /\ old_style = FALSE
    /\ InitRest

\* longitudes BaseStep degrees apart, every LLM configuration; for the Moon
\* the ephemeris gives the grid value, a number off the grid, or raises
Init ==
    /\ \E base \in {b \in Grid : b % Deg(BaseStep) = 0}, layout \in 1..Len(Layouts),
          moon \in {"no", "raises"} \cup OffGrid :
          /\ raw = [ChartAt(base, layout) EXCEPT
                       !["Moon"] = CASE moon = "no" -> @
                                     [] moon = "raises" -> CalcResult("raises", 0)
                                     [] OTHER -> CalcResultOff("nested", moon)]
          /\ asc_in = (base + Deg(Layouts[layout].Asc)) % Circle
    /\ openai_client \in BOOLEAN /\ old_style \in BOOLEAN
    /\ InitRest

\* loc = geocode_place(place); if not loc: st.error(...)
Geocode ==
    /\ pc = "submit"
    /\ \E place \in Places, geocoder \in GeocoderOutcomes :
          /\ loc' = geocode_place(place, geocoder)
          /\ pc' = IF geocode_place(place, geocoder) = None THEN "error" ELSE "located"
    /\ UNCHANGED <<angles, distance, raw, asc_in, openai_client, old_style, dt, rasi, nav, svg,
                   analysis_yogas, structured, sent, text, text2, result, shown>>

\* dt = ensure_tzaware(dt_naive, tz); calc = ChartCalculator(dt, ...);
\* rasi = calc.get_rasi_chart().  An exception of ensure_tzaware or of
\* swe.calc_ut is caught nowhere and ends the run.
GetRasiChart ==
    /\ pc = "located"
    /\ \E tz \in TimezoneTexts :
          LET aware == ensure_tzaware(Birth, tz)
              chart == get_rasi_chart(raw, asc_in)
          IN  IF IsRaised(aware)
              THEN dt' = dt /\ rasi' = rasi /\ pc' = "raised"
              ELSE IF IsRaised(chart)
              THEN dt' = aware /\ rasi' = rasi /\ pc' = "raised"
              ELSE dt' = aware /\ rasi' = chart /\ pc' = "rasi"
    /\ UNCHANGED <<angles, distance, raw, asc_in, openai_client, old_style, loc, nav, svg,
                   analysis_yogas, structured, sent, text, text2, result, shown>>

\* nav = calc.get_navamsa_chart()
GetNavamsaChart ==
    /\ pc = "rasi"
    /\ nav' = get_navamsa_chart(raw, asc_in)
    /\ pc' = "navamsa"
    /\ UNCHANGED <<angles, distance, raw, asc_in, openai_client, old_style, loc, dt, rasi, svg,
                   analysis_yogas, structured, sent, text, text2, result, shown>>

\* draw_north_chart_svg / draw_south_chart_svg: each planet is put into
\* sign_to_planets[r] for its rasi r, and the dict has the keys 1..12 only,
\* so a rasi of 13 raises KeyError
ChartStyles == {"NorthIndian", "SouthIndian"}
draw_chart_svg(rasi_obj, chart_style) ==
    IF \E p \in DOMAIN rasi_obj.planets : rasi_obj.planets[p].rasi \notin 1..12
    THEN Raised("KeyError")
    ELSE [style |-> chart_style, chart |-> rasi_obj]

\* svg = draw_..._chart_svg(rasi, ...), st.components.v1.html(svg), st.code(nav);
\* an exception of the renderer is caught nowhere and ends the run
DrawChart ==
    /\ pc = "navamsa"
    /\ \E chart_style \in ChartStyles :
          LET drawn == draw_chart_svg(rasi, chart_style)
          IN  IF IsRaised(drawn)
              THEN svg' = svg /\ pc' = "raised"
              ELSE svg' = drawn /\ pc' = "drawn"
    /\ UNCHANGED <<angles, distance, raw, asc_in, openai_client, old_style, loc, dt, rasi, nav,
                   analysis_yogas, structured, sent, text, text2, result, shown>>

\* analysis_yogas = analyze_chart_for_yogas_and_dasas(rasi, nav, birth_dt=dt)
AnalyzeBeforeDrawing ==
    /\ pc = "navamsa"
    /\ \E tie \in {0, 1} :
          analysis_yogas' = analyze_chart_for_yogas_and_dasas(rasi, nav, dt.instant, tie)
    /\ pc' = "analysed"
    /\ UNCHANGED <<angles, distance, raw, asc_in, openai_client, old_style, loc, dt, rasi, nav, svg,
                   structured, sent, text, text2, result, shown>>
Analyze ==
    /\ pc = "drawn"
    /\ \E tie \in {0, 1} :
          analysis_yogas' = analyze_chart_for_yogas_and_dasas(rasi, nav, dt.instant, tie)
    /\ pc' = "analysed"
    /\ UNCHANGED <<angles, distance, raw, asc_in, openai_client, old_style, loc, dt, rasi, nav, svg,
                   structured, sent, text, text2, result, shown>>

\* calc.metadata()
metadata(place_loc, when) ==
    [datetime |-> when.instant, lat |-> place_loc.lat, lon |-> place_loc.lon, tz |-> when.tz]

\* structured["yogas"] = analysis_yogas.get("yogas", []);
\* structured["dasas"] = analysis_yogas.get("dasas", {})
MergeYogasOnly(payload, analysis) ==
    [k \in DOMAIN payload \cup {"yogas"} |->
        IF k = "yogas" THEN analysis.yogas ELSE payload[k]]
MergeHeuristics(payload, analysis) ==
    [k \in DOMAIN payload \cup {"yogas", "dasas"} |->
        IF k = "yogas" THEN analysis.yogas
        ELSE IF k = "dasas" THEN analysis.dasas
        ELSE payload[k]]

\* structured = engine.format_structured(rasi, nav, calc.metadata()), then the merge
BuildPayload ==
    /\ pc = "analysed"
    /\ structured' = MergeHeuristics(format_structured(rasi, nav, metadata(loc[1], dt)),
                                     analysis_yogas)
    /\ pc' = "payload"
    /\ UNCHANGED <<angles, distance, raw, asc_in, openai_client, old_style, loc, dt, rasi, nav, svg,
                   analysis_yogas, sent, text, text2, result, shown>>

\* result = engine.generate_analysis(structured, lang), up to the retry
GenerateAnalysis ==
    /\ pc = "payload"
    /\ \E template \in Templates, reply \in call_llm(openai_client, old_style) :
          /\ sent' = <<build_prompt(structured, template)>>
          /\ text' = reply
          /\ CASE AfterFirstReply(reply) = "return parsed" ->
                    /\ result' = extract_json_from_text(reply)[1]
                    /\ pc' = "returned"
               [] AfterFirstReply(reply) = "retry" ->
                    /\ result' = result
                    /\ pc' = "retry"
               [] OTHER ->
                    /\ result' = fallback_text(structured)
                    /\ pc' = "returned"
    /\ UNCHANGED <<angles, distance, raw, asc_in, openai_client, old_style, loc, dt, rasi, nav, svg,
                   analysis_yogas, structured, text2, shown>>

\* generate_analysis, the retry with the injected prompt
RetryAnalysis ==
    /\ pc = "retry"
    /\ \E reply \in call_llm(openai_client, old_style) :
          /\ sent' = Append(sent, injected_prompt(structured))
          /\ text2' = reply
          /\ result' = AfterRetry(text, reply)
    /\ pc' = "returned"
    /\ UNCHANGED <<angles, distance, raw, asc_in, openai_client, old_style, loc, dt, rasi, nav, svg,
                   analysis_yogas, structured, text, shown>>

\* the page: of a dict result, in this order, each part whose value is
\* truthy.  Of bullets the items are written one by one, of yogas the heading
\* and then the items; "- " + item raises for an item that is no string and
\* ends the run with what was written before it on the page.  A part is
\* shown when anything of it has been written.  Any other result is written
\* as it is; a dict with none of the keys headline, bullets, narrative gets a
\* warning and is written as it is as well, below its parts.
RenderOrder == <<"headline", "bullets", "narrative", "yogas", "dasas">>
ValueTruthy(value) == value.kind # "blank"
RenderStops(res) ==
    {i \in 1..Len(RenderOrder) :
        /\ RenderOrder[i] \in {"bullets", "yogas"} \cap DOMAIN res.items
        /\ res.items[RenderOrder[i]].kind \in {Mistyped.kind, MistypedLater.kind}}
RenderRaises(res) == res.type = "dict" /\ RenderStops(res) # {}
WritesSome(part, value) ==
    ValueTruthy(value) /\ ~(part = "bullets" /\ value.kind = Mistyped.kind)
Rendered(res) ==
    IF res.type = "dict"
    THEN LET stop == IF RenderStops(res) = {} THEN Len(RenderOrder) + 1
                     ELSE CHOOSE i \in RenderStops(res) : \A j \in RenderStops(res) : i <= j
         IN  {RenderOrder[i] : i \in {j \in 1..Len(RenderOrder) :
                                         /\ j <= stop
                                         /\ RenderOrder[j] \in DOMAIN res.items
                                         /\ WritesSome(RenderOrder[j], res.items[RenderOrder[j]])}}
             \cup (IF /\ stop > Len(RenderOrder)
                      /\ DOMAIN res.items \cap {"headline", "bullets", "narrative"} = {}
                   THEN {"warning", "raw"} ELSE {})
    ELSE {"raw"}
RenderResult ==
    /\ pc = "returned"
    /\ shown' = Rendered(result)
    /\ pc' = IF RenderRaises(result) THEN "raised" ELSE "rendered"
    /\ UNCHANGED <<angles, distance, raw, asc_in, openai_client, old_style, loc, dt, rasi, nav, svg,
                   analysis_yogas, structured, sent, text, text2, result>>

NextChart ==
    \/ Geocode \/ GetRasiChart \/ GetNavamsaChart \/ DrawChart \/ Analyze \/ BuildPayload

Next ==
    \/ Geocode \/ GetRasiChart \/ GetNavamsaChart \/ DrawChart \/ Analyze \/ BuildPayload
    \/ GenerateAnalysis \/ RetryAnalysis \/ RenderResult

\* planet_positions on results of every shape, any bodies without a number,
\* swe.calc_ut raising for none or one of Raising, with values up to Turn
\* circles either side of [0, 360) and, for none or one of OffBodies, a
\* number off the grid
Raising == {"Sun", "Moon", "Rahu"}
OffBodies == {"Moon"}
Turn == 1
EphemerisStep == 90
InitEphemeris ==
    /\ \E base \in {b \in Grid : b % Deg(EphemerisStep) = 0},
          turn \in (0 - Turn) .. Turn,
          failing \in SUBSET Planets,
          raising \in {{}} \cup {{p} : p \in Raising},
          strays \in {{}} \cup {{p} : p \in OffBodies},
          off \in OffGrid,
          shape \in {"flat", "nested"} :
          raw = [p \in Planets |->
                   IF p \in raising THEN CalcResult("raises", 0)
                   ELSE IF p \in failing THEN CalcResult("neither", 0)
                   ELSE IF p \in strays THEN CalcResultOff(shape, off)
                   ELSE CalcResult(shape, base + Deg(Layouts[1][p]) + (turn * Circle))]
    /\ asc_in = 0
    /\ openai_client = FALSE /\ old_style = FALSE
    /\ InitRest

NextEphemeris == Geocode \/ GetRasiChart \/ GetNavamsaChart \/ DrawChart

SpecEphemeris == InitEphemeris /\ [][NextEphemeris]_vars
\* analyze_chart_for_yogas_and_dasas on a rasi chart handed to it: the Moon at
\* points YogaStep degrees apart, Mars at MarsOffsets from the Moon, Jupiter
\* at every grid longitude in a whole chart and 6 degrees into each sign in a
\* chart with the Moon, Jupiter or Mars left out
YogaStep == 90
MarsOffsets == {0, Deg(3), Deg(3) + 1, Circle - Deg(3), Deg(180)}
LeftOut == {{}, {"Moon"}, {"Jupiter"}, {"Mars"}}
BucketedChart(lons, asc) ==
    [planets |-> [p \in DOMAIN lons |->
                    [lon |-> lons[p],
                     rasi |-> RasiOf(lons[p]),
                     degree_in_sign |-> DegInSignOf(lons[p])]],
     asc |-> asc]
InitYogas ==
    /\ \E moon \in {b \in Grid : b % Deg(YogaStep) = 0},
          mars \in MarsOffsets,
          missing \in LeftOut :
       \E jupiter \in IF missing = {} THEN Grid ELSE {b \in Grid : b % Sign = Deg(6)} :
          /\ raw = [p \in Planets |->
                      CalcResult("nested",
                          IF p = "Jupiter" THEN jupiter
                          ELSE IF p = "Mars" THEN (moon + mars) % Circle
                          ELSE (moon + Deg(Layouts[1][p])) % Circle)]
          /\ rasi = BucketedChart([p \in Planets \ missing |-> raw[p].value], 0)
    /\ asc_in = 0
    /\ openai_client = FALSE /\ old_style = FALSE
    /\ pc = "drawn"
    /\ dt = ensure_tzaware(Birth, "Asia/Kolkata")
    /\ loc = Unset /\ nav = Unset /\ svg = Unset
    /\ analysis_yogas = Unset /\ structured = Unset
    /\ sent = <<>> /\ text = Unset /\ text2 = Unset /\ result = Unset
    /\ shown = {}
    /\ angles = Unset /\ distance = Unset
NextYogas == Analyze
SpecYogas == InitYogas /\ [][NextYogas]_vars

\* _angle_distance on pairs of doubles of [0, 360): whole parts AngleStep
\* degrees apart, each with up to MaxLow units of 2^-46 degree either side
AngleStep == 10
MaxLow == 4
AnglesIn ==
    {x \in [whole : {g \in Grid : g % Deg(AngleStep) = 0}, low : (0 - MaxLow) .. MaxLow] :
        ~Negative(x) /\ x.low % Spacing(x) = 0}
InitAngles ==
    /\ \E a \in AnglesIn, b \in AnglesIn : angles = <<a, b>>
    /\ distance = Unset
    /\ raw = ChartAt(0, 1) /\ asc_in = 0
    /\ openai_client = FALSE /\ old_style = FALSE
    /\ pc = "submit"
    /\ loc = Unset /\ dt = Unset /\ rasi = Unset /\ nav = Unset /\ svg = Unset
    /\ analysis_yogas = Unset /\ structured = Unset
    /\ sent = <<>> /\ text = Unset /\ text2 = Unset /\ result = Unset
    /\ shown = {}
MeasureAngles ==
    /\ angles # Unset /\ distance = Unset
    /\ distance' = [ab |-> AngleDistanceDouble(angles[1], angles[2]),
                    ba |-> AngleDistanceDouble(angles[2], angles[1])]
    /\ UNCHANGED <<angles, pc, raw, asc_in, openai_client, old_style, loc, dt, rasi, nav,
                   svg, analysis_yogas, structured, sent, text, text2, result, shown>>
NextAngles == MeasureAngles
SpecAngles == InitAngles /\ [][NextAngles]_vars

SpecChart == InitChart /\ [][NextChart]_vars
Spec == Init /\ [][Next]_vars

----------------------------------------------------------------------------
\* Properties

HasRasi == rasi # Unset
HasNavamsa == nav # Unset
HasAnalysis == analysis_yogas # Unset
MoonLon == rasi.planets["Moon"].lon

\* C1: every planet of the rasi chart with a longitude in [0, 360) has its
\* rasi in 1..12 and its degree_in_sign in [0, 30), and they are the sign the
\* longitude falls in and the rest: 30*(rasi-1) <= lon < 30*rasi and
\* degree_in_sign = lon - 30*(rasi-1).
C1_RasiIsSignOfLongitude ==
    HasRasi =>
        \A p \in DOMAIN rasi.planets :
            LET info == rasi.planets[p]
            IN  info.lon \in Grid =>
                   /\ info.rasi \in 1..12
                   /\ info.degree_in_sign >= 0 /\ info.degree_in_sign < Sign
                   /\ Sign * (info.rasi - 1) <= info.lon /\ info.lon < Sign * info.rasi
                   /\ info.degree_in_sign = info.lon - Sign * (info.rasi - 1)

\* C1 witness: the chart is built with the Moon a quarter short of the end of the
\* twelfth sign and another body in the first sign.
C1_Witness ==
    /\ pc = "rasi"
    /\ rasi.planets["Moon"].rasi = 12
    /\ rasi.planets["Moon"].degree_in_sign = Sign - 1
    /\ rasi.planets["Rahu"].rasi = 1

\* C2: every planet of the navamsa chart has the navamsa index
\* floor((lon mod 30)/(30/9)) in 0..8 and the nav_sign
\* ((floor(lon/30)*9 + index) mod 12) + 1, in 1..12.
C2_NavSignFromFlooredIndex ==
    HasNavamsa =>
        \A p \in DOMAIN nav.navamsa :
            LET lon == nav.navamsa[p].lon
                index == ((lon % Sign) * 9) \div Sign
            IN  /\ index \in 0..8
                /\ nav.navamsa[p].nav_sign \in 1..12
                /\ nav.navamsa[p].nav_sign = (((lon \div Sign) * 9 + index) % 12) + 1

\* C3: the navamsa chart is the ninth harmonic of the rasi chart: nav_sign
\* is the sign of nine times the longitude, floor(((9*lon) mod 360)/30) + 1.
C3_NavSignIsNinthHarmonic ==
    HasNavamsa =>
        \A p \in DOMAIN nav.navamsa :
            nav.navamsa[p].nav_sign = (((9 * nav.navamsa[p].lon) % Circle) \div Sign) + 1

\* C4: for the Moon's longitude, _deg_to_nak_index returns the index
\* floor(lon/(360/27)), in 0..26, and a fraction in [0, 1) that is 0 exactly
\* at a nakshatra boundary.
C4_NakIndexAndFraction ==
    HasAnalysis =>
        LET nak == deg_to_nak_index(MoonLon)
            f == nak.fraction
        IN  /\ nak.idx = (MoonLon * 27) \div Circle
            /\ nak.idx \in 0..26
            /\ f.num >= 0 /\ (f.num < f.den \/ (f.num = f.den /\ f.eps > 0))
            /\ (f.num = 0 /\ f.eps = 0) <=> ((MoonLon * 27) % Circle = 0)

\* C5: the lords of the dasa sequence follow VIM_ORDER cyclically, starting
\* from the lord VIM_ORDER[nakshatra index mod 9] of the Moon's nakshatra,
\* and every period after the first lasts its lord's VIM_YEARS.
C5_DasaRotation ==
    HasAnalysis =>
        LET seq == analysis_yogas.dasas.sequence
            nakshatra == (MoonLon * 27) \div Circle
        IN  /\ seq[1].name = VIM_ORDER[(nakshatra % 9) + 1]
            /\ \A i \in 1..(Len(seq) - 1) :
                  seq[i + 1].name = VIM_ORDER[(IndexOf(VIM_ORDER, seq[i].name) % 9) + 1]
            /\ \A i \in 2..Len(seq) :
                  /\ seq[i].duration_years = Years(VIM_YEARS[seq[i].name])
                  /\ seq[i].end.ticks - seq[i].start.ticks = VIM_YEARS[seq[i].name] * Circle
                  /\ seq[i].end.us = seq[i].start.us

Range(seq) == {seq[i] : i \in 1..Len(seq)}
\* the entries of a yoga list without the interpolated degrees
Reported(yogas) == {[name |-> y.name, planet |-> y.planet] : y \in Range(yogas)}
\* the same chart turned by k: every angular distance stays as it is
Turned(k) ==
    get_rasi_chart([p \in Planets |-> CalcResult("nested", (raw[p].value + k) % Circle)], asc_in)
Turns == {Deg(1), Deg(30), Deg(90)}
Apart(a, b) == IF Abs(a - b) > Deg(180) THEN Circle - Abs(a - b) ELSE Abs(a - b)
GajakesariEntry == [name |-> "Gajakesari Yoga (heuristic)", planet |-> ""]
ChandraMangalEntry == [name |-> "Chandra-Mangal Yoga (heuristic)", planet |-> ""]
MahalakshmiEntry == [name |-> "Mahalakshmi Yoga (heuristic)", planet |-> ""]
RajaEntry(lord) == [name |-> "Possible Raja-yoga influence (in kendra)", planet |-> lord]
NeechaEntry(planet) == [name |-> "Possible Neecha (weak) placement", planet |-> planet]

\* C6 as claimed: every reported yoga is decided by thresholds on the angular
\* distance between longitudes alone, so a chart turned as a whole, which
\* keeps every angular distance, reports the same yogas.
C6_YogasDecidedByAngularDistance ==
    HasAnalysis =>
        \A k \in Turns :
            Reported(detect_common_yogas(Turned(k))) = Reported(analysis_yogas.yogas)

\* C6 amended: each entry is reported exactly when its own detector's check
\* holds, whatever the other detectors report.  Gajakesari and Chandra-Mangal
\* are thresholds on an angular distance (Jupiter-Moon within 6 degrees of 0
\* or of 120, Moon-Mars within 3 degrees) and are the same for the turned
\* chart; Mahalakshmi and Raja-yoga are decided by the sign a planet is in
\* and Neecha by the planet's degree within its sign.
C6_EachYogaDecidedByOwnCheck ==
    HasAnalysis =>
        LET R == Reported(analysis_yogas.yogas)
            lon(p) == raw[p].value % Circle
            sign(p) == (lon(p) \div Sign) + 1
            jm == Apart(lon("Jupiter"), lon("Moon"))
        IN  /\ GajakesariEntry \in R <=> (jm <= Deg(6) \/ Abs(jm - Deg(120)) <= Deg(6))
            /\ ChandraMangalEntry \in R <=> Apart(lon("Moon"), lon("Mars")) <= Deg(3)
            /\ MahalakshmiEntry \in R <=> sign("Venus") \in {1, 5, 9}
            /\ \A lord \in Range(RajaLords) : RajaEntry(lord) \in R <=> sign(lord) \in {1, 4, 7, 10}
            /\ RajaEntry("Rahu") \notin R
            /\ \A p \in Planets : NeechaEntry(p) \in R <=> lon(p) % Sign < Deg(2)
            /\ \A k \in Turns :
                  LET T == Reported(detect_common_yogas(Turned(k)))
                  IN  /\ GajakesariEntry \in T <=> GajakesariEntry \in R
                      /\ ChandraMangalEntry \in T <=> ChandraMangalEntry \in R

\* C6 witness: one analysis reports Gajakesari, Chandra-Mangal and Mahalakshmi
\* together with a Neecha entry.
C6_Witness ==
    /\ pc = "analysed"
    /\ {GajakesariEntry, ChandraMangalEntry, MahalakshmiEntry} \subseteq Reported(analysis_yogas.yogas)
    /\ \E p \in Planets : NeechaEntry(p) \in Reported(analysis_yogas.yogas)

Returned == result # Unset

\* C7: if the first call yields no text (no client, a failed call, an empty
\* reply), generate_analysis asks once, makes no retry and returns the local
\* fallback reading, which is fixed by the payload: the fallback headline,
\* one bullet for each of the first six planets with the sign from the
\* payload, and the narrative made of them.
C7_NoTextFallsBackWithoutRetry ==
    (Returned /\ text.empty) =>
        /\ Len(sent) = 1
        /\ text2 = Unset
        /\ result = fallback_text(structured)
        /\ result.items.headline.value = "Basic horoscope overview (local fallback)"
        /\ Len(result.items.bullets.value) = 6
        /\ \A i \in 1..6 :
              /\ result.items.bullets.value[i].planet = Bodies[i]
              /\ result.items.bullets.value[i].sign = structured.rasi[Bodies[i]].rasi
        /\ result.items.narrative.value.placements = result.items.bullets.value

\* C7 witness: a client is configured, its call yields nothing, and the
\* fallback reading is returned.
C7_Witness ==
    /\ pc = "returned"
    /\ openai_client
    /\ text = NoText
    /\ result.items.bullets.value[2].planet = "Moon"

\* C8: the model is asked at most twice, and a first reply that is non-empty
\* text and asks for the JSON or holds no JSON is followed by exactly one
\* retry, whose prompt carries the structured JSON.
C8_RetryOnceWhenAskedOrNoJson ==
    /\ Len(sent) <= 2
    /\ (Returned /\ ~text.empty /\ (text.asks \/ text.json = None)) =>
          /\ Len(sent) = 2
          /\ sent[2].json = structured

\* C9 as claimed: on every path the returned value is an object with the
\* keys headline, bullets, narrative, yogas and dasas.
C9_ResultHasReplyShape ==
    Returned => (result.type = "dict" /\ DOMAIN result.items = ReplyKeys)

Usable(reply) == ~reply.empty /\ reply.json # None /\ Truthy(reply.json[1])

\* C9 amended: the local fallback has exactly the five keys; after an
\* unusable retry the value has the key narrative alone; on the two parsed
\* paths the value is the JSON found in the reply, whatever its keys.
C9_ShapeByPath ==
    Returned =>
        /\ (Len(sent) = 1 /\ ~Usable(text)) =>
              (result.type = "dict" /\ DOMAIN result.items = ReplyKeys)
        /\ (Len(sent) = 2 /\ ~Usable(text2)) =>
              (result.type = "dict" /\ DOMAIN result.items = {"narrative"})
        /\ (Len(sent) = 1 /\ Usable(text)) => result = text.json[1]
        /\ (Len(sent) = 2 /\ Usable(text2)) => result = text2.json[1]

\* C9 witness: the retry came back with nothing usable and the first reply
\* is returned as the narrative.
C9_Witness ==
    /\ pc = "returned"
    /\ Len(sent) = 2
    /\ text2 = NoText
    /\ DOMAIN result.items = {"narrative"}
    /\ result.items.narrative.value = text

\* C10: when generate_analysis is called the payload has the keys meta, rasi,
\* asc, navamsa, yogas and dasas, and its rasi part has one entry for each
\* planet of the rasi chart, each with lon, rasi and deg.
C10_PayloadShape ==
    pc = "payload" =>
        /\ DOMAIN structured = {"meta", "rasi", "asc", "navamsa", "yogas", "dasas"}
        /\ DOMAIN structured.rasi = DOMAIN rasi.planets
        /\ DOMAIN structured.rasi = Planets
        /\ \A p \in DOMAIN structured.rasi : DOMAIN structured.rasi[p] = {"lon", "rasi", "deg"}

\* C10 witness: the payload is ready, with yogas merged in and a planet at
\* the very start of a sign.
C10_Witness ==
    /\ pc = "payload"
    /\ Len(structured.yogas) > 0
    /\ Len(structured.dasas.sequence) = 7
    /\ structured.rasi["Moon"].deg = None

\* C11 as claimed: the stages run in the order geocode, ephemeris lookup,
\* sign bucketing, yoga/dasa matching, LLM call, render, each after the one
\* before it, and rendering comes last: nothing is drawn or shown before
\* generate_analysis has returned.
C11_StagesInOrderRenderLast ==
    /\ rasi # Unset => loc # None
    /\ nav # Unset => rasi # Unset
    /\ analysis_yogas # Unset => nav # Unset
    /\ sent # <<>> => analysis_yogas # Unset
    /\ (svg # Unset \/ shown # {}) => result # Unset

StageOrder == <<"submit", "located", "rasi", "navamsa", "drawn", "analysed",
                "payload", "retry", "returned", "rendered">>
Stage(at) == IndexOf(StageOrder, at)

\* C11 amended: once the place is geocoded the steps run one after another
\* in the order geocode, ephemeris lookup with sign bucketing for the rasi
\* chart, the same for the navamsa chart, drawing of the chart, yoga/dasa
\* matching, payload, LLM call (with the retry, if any), rendering of the
\* reading.  Each step starts from the completed result of the one before
\* it; the chart is drawn before the matching and the LLM call, and the
\* reading is rendered last.  If the place is not geocoded nothing else
\* runs.  The run ends where a step raises: the rasi chart step (the
\* timezone text names no timezone, swe.calc_ut raises, or a longitude is
\* nan), the drawing (a planet at 360.0, rasi 13) or the writing of the
\* reading; no other step raises, and nothing runs after.
C11_StagesInOrder ==
    [][ /\ pc \notin {"error", "raised"}
        /\ \/ pc = "submit" /\ pc' = "error"
           \/ pc = "payload" /\ pc' = "returned"
           \/ pc \in {"located", "navamsa", "returned"} /\ pc' = "raised"
           \/ pc' \notin {"error", "raised"} /\ Stage(pc') = Stage(pc) + 1
        /\ (pc' = "error") = (loc' = None)
        /\ (pc = "located" /\ pc' = "raised") <=>
              (pc = "located" /\ (dt' = Unset \/ CalcRaises(raw)
                                  \/ \E p \in Planets : raw[p].off = "nan"))
        /\ (pc = "navamsa" /\ pc' = "raised") <=>
              (pc = "navamsa" /\ \E p \in Planets : rasi.planets[p].lon = Circle)
        /\ (pc = "returned" /\ pc' = "raised") <=>
              (pc = "returned" /\ RenderRaises(result))
        /\ pc' = "raised" => UNCHANGED <<rasi, nav, svg, analysis_yogas, structured,
                                         sent, result>>
        /\ rasi' # rasi => (loc # None /\ dt' # Unset /\ pc' = "rasi")
        /\ nav' # nav => (rasi # Unset /\ pc' = "navamsa")
        /\ svg' # svg => (nav # Unset /\ analysis_yogas = Unset /\ sent = <<>> /\ pc' = "drawn")
        /\ analysis_yogas' # analysis_yogas => (svg # Unset /\ pc' = "analysed")
        /\ structured' # structured => (analysis_yogas # Unset /\ pc' = "payload")
        /\ sent' # sent => (structured # Unset /\ pc' \in {"retry", "returned"})
        /\ shown' # shown => (result # Unset /\ pc = "returned")
        /\ pc = "returned" => UNCHANGED <<loc, dt, rasi, nav, svg, analysis_yogas,
                                          structured, sent, result>> ]_vars

\* C11 witness: a submission has run to the end, through the retry.
C11_Witness ==
    /\ pc = "rendered"
    /\ Len(sent) = 2
    /\ svg # Unset
    /\ "narrative" \in shown

C13_SevenPeriodsWithoutGapOrOverlap ==
    (HasAnalysis /\ "Moon" \in DOMAIN rasi.planets) =>
        LET seq == analysis_yogas.dasas.sequence
        IN  /\ Len(seq) = 7
            /\ seq[1].start = Birth
            /\ \A i \in 1..(Len(seq) - 1) : seq[i + 1].start = seq[i].end
            /\ \A i \in 1..Len(seq) :
                  \/ seq[i].end.ticks > seq[i].start.ticks
                  \/ seq[i].end.ticks = seq[i].start.ticks /\ seq[i].end.us > seq[i].start.us

\* C14: the first period lasts the starting lord's full duration times
\* (1 - fraction of the nakshatra the Moon has traversed): more than 0, at
\* most the full duration, and the full duration exactly when the Moon is at
\* the start of its nakshatra.
C14_FirstPeriodIsRemainder ==
    (HasAnalysis /\ "Moon" \in DOMAIN rasi.planets) =>
        LET first == analysis_yogas.dasas.sequence[1]
            d == first.duration_years
            full == VIM_YEARS[first.name]
            traversed == (MoonLon * 27) % Circle
        IN  /\ d.num * Circle = full * (Circle - traversed) * d.den
            /\ d.eps = 0
            /\ (d.num > 0 \/ (d.num = 0 /\ d.eps < 0))
            /\ d.num <= full * d.den
            /\ (d.num = full * d.den /\ d.eps = 0) <=> (traversed = 0)

\* C17: a Neecha entry is reported for a planet exactly when the planet is
\* less than 5 degrees into its sign.
C17_NeechaBelowFiveDegrees ==
    HasAnalysis =>
        \A p \in DOMAIN rasi.planets :
            NeechaEntry(p) \in Reported(analysis_yogas.yogas)
                <=> rasi.planets[p].lon % Sign < Deg(5)

\* C19: for every planet of the rasi chart the deg of the payload is the
\* planet's degree within its sign, lon mod 30, also at exactly 0 degrees.
C19_PayloadDegIsDegreeInSign ==
    pc = "payload" =>
        \A p \in DOMAIN rasi.planets :
            structured.rasi[p].deg = Some(rasi.planets[p].lon % Sign)

\* the chart with the longitudes of a and b exchanged and bucketed anew
Swapped(chart, a, b) ==
    IF a \in DOMAIN chart.planets /\ b \in DOMAIN chart.planets
    THEN BucketedChart([p \in DOMAIN chart.planets |->
                           IF p = a THEN chart.planets[b].lon
                           ELSE IF p = b THEN chart.planets[a].lon
                           ELSE chart.planets[p].lon], chart.asc)
    ELSE chart

\* the smallest distance around the circle, min(|a-b|, 360-|a-b|), as a
\* real number
ExactArc(a, b) ==
    LET across == AbsDouble(Double(a.whole - b.whole, a.low - b.low))
        around == Double(Circle - across.whole, 0 - across.low)
    IN  IF Negative(Double(around.whole - across.whole, around.low - across.low))
        THEN around ELSE across
InArcRange(d) == ~Negative(d) /\ (d.whole < Deg(180) \/ (d.whole = Deg(180) /\ d.low <= 0))
\* three roundings: a - b by at most 2 units, + 180 by at most 4, + 360 by
\* at most 2
Near(d, e) == d.whole = e.whole /\ Abs(d.low - e.low) <= 8

\* C15 as claimed: for all angles a and b in [0, 360), _angle_distance(a, b)
\* is min(|a-b|, 360-|a-b|), lies in [0, 180], is 0 exactly when a = b, and
\* is the same for (b, a).
C15_AngleDistanceIsSmallestArc ==
    distance # Unset =>
        LET a == angles[1]
            b == angles[2]
        IN  /\ distance.ab = ExactArc(a, b)
            /\ InArcRange(distance.ab)
            /\ (distance.ab = Double(0, 0)) <=> (a = b)
            /\ distance.ab = distance.ba

\* C15 amended: for all angles a and b in [0, 360), _angle_distance(a, b)
\* lies in [0, 180] and is min(|a-b|, 360-|a-b|) up to the rounding of the
\* double arithmetic (8 units of 2^-46 degree), in either order and 0 when
\* a = b; for angles on which the arithmetic is exact, such as multiples of a
\* quarter degree, it is exactly that distance, is 0 only when a = b, and is
\* the same for (b, a).
C15_SmallestArcUpToRounding ==
    distance # Unset =>
        LET a == angles[1]
            b == angles[2]
        IN  /\ InArcRange(distance.ab) /\ InArcRange(distance.ba)
            /\ Near(distance.ab, ExactArc(a, b))
            /\ Near(distance.ba, ExactArc(a, b))
            /\ a = b => distance.ab = Double(0, 0)
            /\ (a.low = 0 /\ b.low = 0) =>
                  /\ distance.ab = ExactArc(a, b)
                  /\ distance.ab = distance.ba
                  /\ (distance.ab = Double(0, 0)) <=> (a = b)
                  /\ distance.ab = Double(angle_distance(a.whole, b.whole), 0)

\* C15 witness: two angles off the grid that lie more than 180 degrees
\* apart on the number line, measured with a different result in each order.
C15_Witness ==
    /\ distance # Unset
    /\ angles[1].low # 0
    /\ Abs(angles[1].whole - angles[2].whole) > Deg(180)
    /\ distance.ab # distance.ba

C18_NoMoonNoDasas ==
    /\ (pc = "drawn" /\ rasi # Unset /\ "Moon" \notin DOMAIN rasi.planets) => ENABLED Analyze
    /\ HasAnalysis =>
          LET p == rasi.planets
              R == Reported(analysis_yogas.yogas)
          IN  IF "Moon" \in DOMAIN p
              THEN Len(analysis_yogas.dasas.sequence) > 0
              ELSE /\ analysis_yogas.dasas.current.text = "Unknown (no Moon position)"
                   /\ analysis_yogas.dasas.sequence = <<>>
                   /\ DOMAIN analysis_yogas.dasas = {"current", "sequence"}
                   /\ R = {MahalakshmiEntry : v \in {x \in {"Venus"} \cap DOMAIN p :
                                                        p[x].rasi \in {1, 5, 9}}}
                          \cup {RajaEntry(lord) : lord \in
                                  {l \in Range(RajaLords) \cap DOMAIN p :
                                      p[l].rasi \in {1, 4, 7, 10}}}
                          \cup {NeechaEntry(n) : n \in
                                  {x \in DOMAIN p : p[x].lon % Sign < Deg(2)}}

\* C18 witness: a chart without the Moon has been analysed, yogas of the
\* other planets are reported and the dasas are the 'Unknown' ones.
C18_Witness ==
    /\ pc = "analysed"
    /\ "Moon" \notin DOMAIN rasi.planets
    /\ MahalakshmiEntry \in Reported(analysis_yogas.yogas)
    /\ \E lord \in Range(RajaLords) : RajaEntry(lord) \in Reported(analysis_yogas.yogas)
    /\ analysis_yogas.dasas.sequence = <<>>

====
